---- MODULE Spec2Model ----
(***************************************************************************)
(* A model of the python-training gallery notebooks.                       *)
(*                                                                         *)
(* Part I  : earth_relative_wind_components(ugrd, vgrd) of the 500-hPa     *)
(*           vorticity-advection notebook, statement by statement, on a    *)
(*           heap of DataArray objects.  Two calls are made one after the  *)
(*           other so that relations between calls can be stated.          *)
(* Part II : the three notebooks as top-to-bottom scripts (one kernel      *)
(*           namespace each), statement by statement.                      *)
(*                                                                         *)
(* Library calls are modelled by what they do: numpy.meshgrid, numpy       *)
(* broadcasting, xarray's copy() and values setter, and cartopy's          *)
(* transform_vectors, which rotates each vector by the angle between the   *)
(* source grid's axes and true east/north at the vector's position.  The   *)
(* angle is kept in quarter turns so that the arithmetic is exact.         *)
(***************************************************************************)
EXTENDS Integers, Sequences, FiniteSets, TLC

\* ------------------------------------------------------------------ bounds
\* A grid has M rows (y) and N columns (x) with M * N <= MaxNodes.
MaxNodes == 4

\* The grids of the wind-barb step have up to MaxSide rows and columns.
MaxSide == 41

\* ------------------------------------------------------------- input sets
\* Coordinate reference systems a grid may carry; "none" is a DataArray
\* without the 'metpy_crs' coordinate (parse_cf() was not used).
Projections == {"PlateCarree", "LambertConformal"}
CrsTags == Projections \cup {"none"}

\* Wind vectors <<u, v>> a grid node may hold.
Vecs == {<<1, 0>>, <<2, 3>>, <<0, -1>>}

Shapes == {s \in (1..MaxNodes) \X (1..MaxNodes) : s[1] * s[2] <= MaxNodes}

Nodes(s) == (1..s[1]) \X (1..s[2])

\* ---------------------------------------------------------------- arrays
\* A 2-d array is a sequence of rows.
Shape(a) == <<Len(a), Len(a[1])>>

\* The array of shape s whose element (i, j) is f[i, j].
Array(s, f) == [i \in 1..s[1] |-> [j \in 1..s[2] |-> f[i, j]]]

Axis(origin, n) == [k \in 1..n |-> origin + k]

\* An xarray DataArray with dims (y, x): its values, its two coordinate
\* axes, whether the axes are coordinates named 'x' and 'y', and its CRS.
DataArray(vals, xs, ys, named, crs) ==
    [values |-> vals, x |-> xs, y |-> ys, hasXY |-> named, crs |-> crs]

Coords(g) == [x |-> g.x, y |-> g.y, hasXY |-> g.hasXY, crs |-> g.crs]

\* ------------------------------------------------------- library routines
\* numpy.meshgrid(x, y): two arrays of shape (len(y), len(x)); xx repeats x
\* along the rows, yy repeats y along the columns.
Meshgrid(xs, ys) ==
    [xx |-> Array(<<Len(ys), Len(xs)>>,
                  [i \in DOMAIN ys, j \in DOMAIN xs |-> xs[j]]),
     yy |-> Array(<<Len(ys), Len(xs)>>,
                  [i \in DOMAIN ys, j \in DOMAIN xs |-> ys[i]])]

\* numpy broadcasting of two 2-d shapes.
Compatible(s, t) == \A d \in 1..2 : s[d] = t[d] \/ s[d] = 1 \/ t[d] = 1

Max(a, b) == IF a >= b THEN a ELSE b

BShape(s, t) == <<Max(s[1], t[1]), Max(s[2], t[2])>>

\* Element (i, j) of a broadcast array.
At(a, i, j) ==
    a[IF Len(a) = 1 THEN 1 ELSE i][IF Len(a[1]) = 1 THEN 1 ELSE j]

\* The angle, in quarter turns, from true north to the grid's y axis at the
\* position (px, py) given in the grid's own coordinates.  A plate carree
\* grid is aligned with east/north everywhere; a conic grid turns with
\* position.
Convergence(crs, px, py) ==
    IF crs = "PlateCarree" THEN 0 ELSE (px + 2 * py) % 4

\* A vector turned by k quarter turns (counter-clockwise).
Rotate(w, k) ==
    CASE k = 0 -> w
      [] k = 1 -> <<-w[2], w[1]>>
      [] k = 2 -> <<-w[1], -w[2]>>
      [] k = 3 -> <<w[2], -w[1]>>

\* ccrs.PlateCarree().transform_vectors(src, xx, yy, u, v): the operands
\* are broadcast against each other and every vector is turned from the
\* source grid's axes to east/north at its own position.
TransformOperandsOk(pxx, pyy, u, v) ==
    /\ Compatible(Shape(pxx), Shape(u))
    /\ Compatible(BShape(Shape(pxx), Shape(u)), Shape(v))

TransformShape(pxx, u, v) == BShape(BShape(Shape(pxx), Shape(u)), Shape(v))

TurnedAt(src, pxx, pyy, u, v, i, j) ==
    Rotate(<<At(u, i, j), At(v, i, j)>>,
           Convergence(src, At(pxx, i, j), At(pyy, i, j)))

PlateCarreeTransformVectors(src, pxx, pyy, u, v) ==
    LET s == TransformShape(pxx, u, v)
    IN  [ut |-> Array(s, [i \in 1..s[1], j \in 1..s[2] |->
                             TurnedAt(src, pxx, pyy, u, v, i, j)[1]]),
         vt |-> Array(s, [i \in 1..s[1], j \in 1..s[2] |->
                             TurnedAt(src, pxx, pyy, u, v, i, j)[2]])]

\* ------------------------------------------------------------------ state
VARIABLES
    heap,       \* the DataArray objects alive in the call, by reference
    args,       \* the two DataArrays as they were when the call was made
    env,        \* the calling script's global names (not the function's)
    pc,         \* the statement of earth_relative_wind_components to run
    data_crs,   \* local: ugrd.metpy.cartopy_crs
    x, y,       \* locals: ugrd.x.values, ugrd.y.values
    xx, yy,     \* locals: the meshgrid
    ut, vt,     \* locals: the transformed components
    uer, ver,   \* locals: references to the copies
    exc,        \* the exception that ended the call, if any
    result,     \* the returned pair of references, <<>> until returned
    first       \* what the first call did, once the second has begun

fnvars == <<heap, args, env, pc, data_crs, x, y, xx, yy, ut, vt, uer, ver,
            exc, result, first>>

\* The notebooks' runs (used from the notebooks section on).
VARIABLES
    cursor,     \* per notebook: the index of the statement to run next
    status,     \* per notebook: "running", "done" or "failed"
    error,      \* per notebook: the exception that ended the run, if any
    trace,      \* per notebook: the statements run so far, in order
    used,       \* per notebook: the bindings each of them read
    before,     \* per notebook: the kinds of statement run before each
    raised,     \* per notebook: the statements that raised
    namespace   \* per kernel: the bound names, each with the statement
                \* that bound it

nbvars == <<cursor, status, error, trace, used, before, raised, namespace>>

\* The wind-barb step of the vorticity notebook (lines 255-261).
VARIABLES
    wnd_500,    \* uwnd_500 and vwnd_500: [u |-> DataArray, v |-> DataArray]
    bpc,        \* the statement of the wind-barb step to run
    wind_slice, \* the pair of slices, <<>> until bound
    barb_xx,    \* the script's xx and yy: the positions of the barbs
    barb_yy,
    barbs       \* the arrays handed to ax.barbs, <<>> until drawn

barbvars == <<wnd_500, bpc, wind_slice, barb_xx, barb_yy, barbs>>

vars == <<fnvars, nbvars, barbvars>>

\* References of the two parameters and of the two copies.
ugrd == "ugrd"
vgrd == "vgrd"

NoExc == [type |-> "none", at |-> "none"]
NoArray == <<>>
Unbound == "unbound"

Raise(type, at) ==
    /\ exc' = [type |-> type, at |-> at]
    /\ pc' = "raised"

\* -------------------------------------- earth_relative_wind_components
\* (mutant) the check looks at vgrd's coordinates instead of ugrd's.
CheckCrsOnVgrd ==
    /\ pc = "check"
    /\ UNCHANGED <<nbvars, barbvars>>
    /\ IF heap[vgrd].crs = "none"
       THEN Raise("ValueError", "check")
       ELSE pc' = "crs" /\ exc' = exc
    /\ UNCHANGED <<heap, args, env, data_crs, x, y, xx, yy, ut, vt, uer, ver,
                   result, first>>

\* if 'metpy_crs' not in ugrd.coords: raise ValueError(...)
CheckCrs ==
    /\ pc = "check"
    /\ UNCHANGED <<nbvars, barbvars>>
    /\ IF heap[ugrd].crs = "none"
       THEN Raise("ValueError", "check")
       ELSE pc' = "crs" /\ exc' = exc
    /\ UNCHANGED <<heap, args, env, data_crs, x, y, xx, yy, ut, vt, uer, ver,
                   result, first>>

\* (mutant) the CRS is taken from the script's global datacrs.
ReadCrsFromGlobal ==
    /\ pc = "crs"
    /\ UNCHANGED <<nbvars, barbvars>>
    /\ data_crs' = env.datacrs
    /\ pc' = "xy"
    /\ UNCHANGED <<heap, args, env, x, y, xx, yy, ut, vt, uer, ver, exc,
                   result, first>>

\* data_crs = ugrd.metpy.cartopy_crs
ReadCrs ==
    /\ pc = "crs"
    /\ UNCHANGED <<nbvars, barbvars>>
    /\ data_crs' = heap[ugrd].crs
    /\ pc' = "xy"
    /\ UNCHANGED <<heap, args, env, x, y, xx, yy, ut, vt, uer, ver, exc,
                   result, first>>

\* (mutant) the axes are read from vgrd.
ReadXYFromVgrd ==
    /\ pc = "xy"
    /\ UNCHANGED <<nbvars, barbvars>>
    /\ IF heap[vgrd].hasXY
       THEN /\ x' = heap[vgrd].x
            /\ y' = heap[vgrd].y
            /\ pc' = "meshgrid"
            /\ exc' = exc
       ELSE /\ Raise("AttributeError", "xy")
            /\ UNCHANGED <<x, y>>
    /\ UNCHANGED <<heap, args, env, data_crs, xx, yy, ut, vt, uer, ver,
                   result, first>>

\* x = ugrd.x.values ; y = ugrd.y.values
\* A DataArray without coordinates named 'x' and 'y' has no such attribute.
ReadXY ==
    /\ pc = "xy"
    /\ UNCHANGED <<nbvars, barbvars>>
    /\ IF heap[ugrd].hasXY
       THEN /\ x' = heap[ugrd].x
            /\ y' = heap[ugrd].y
            /\ pc' = "meshgrid"
            /\ exc' = exc
       ELSE /\ Raise("AttributeError", "xy")
            /\ UNCHANGED <<x, y>>
    /\ UNCHANGED <<heap, args, env, data_crs, xx, yy, ut, vt, uer, ver,
                   result, first>>

\* xx, yy = np.meshgrid(x, y)
MakeMeshgrid ==
    /\ pc = "meshgrid"
    /\ UNCHANGED <<nbvars, barbvars>>
    /\ xx' = Meshgrid(x, y).xx
    /\ yy' = Meshgrid(x, y).yy
    /\ pc' = "transform"
    /\ UNCHANGED <<heap, args, env, data_crs, x, y, ut, vt, uer, ver, exc,
                   result, first>>

\* (mutant) the values are passed with their axes swapped (.values.T).
Transpose(a) ==
    Array(<<Len(a[1]), Len(a)>>,
          [i \in 1..Len(a[1]), j \in 1..Len(a) |-> a[j][i]])

TransformVectorsTransposed ==
    /\ pc = "transform"
    /\ UNCHANGED <<nbvars, barbvars>>
    /\ IF TransformOperandsOk(xx, yy, Transpose(heap[ugrd].values),
                              Transpose(heap[vgrd].values))
       THEN /\ ut' = PlateCarreeTransformVectors(data_crs, xx, yy,
                         Transpose(heap[ugrd].values),
                         Transpose(heap[vgrd].values)).ut
            /\ vt' = PlateCarreeTransformVectors(data_crs, xx, yy,
                         Transpose(heap[ugrd].values),
                         Transpose(heap[vgrd].values)).vt
            /\ pc' = "copy"
            /\ exc' = exc
       ELSE /\ Raise("ValueError", "transform")
            /\ UNCHANGED <<ut, vt>>
    /\ UNCHANGED <<heap, args, env, data_crs, x, y, xx, yy, uer, ver,
                   result, first>>

\* ut, vt = ccrs.PlateCarree().transform_vectors(data_crs, xx, yy,
\*                                               ugrd.values, vgrd.values)
TransformVectors ==
    /\ pc = "transform"
    /\ UNCHANGED <<nbvars, barbvars>>
    /\ IF TransformOperandsOk(xx, yy, heap[ugrd].values, heap[vgrd].values)
       THEN /\ ut' = PlateCarreeTransformVectors(data_crs, xx, yy,
                         heap[ugrd].values, heap[vgrd].values).ut
            /\ vt' = PlateCarreeTransformVectors(data_crs, xx, yy,
                         heap[ugrd].values, heap[vgrd].values).vt
            /\ pc' = "copy"
            /\ exc' = exc
       ELSE /\ Raise("ValueError", "transform")
            /\ UNCHANGED <<ut, vt>>
    /\ UNCHANGED <<heap, args, env, data_crs, x, y, xx, yy, uer, ver,
                   result, first>>

\* (mutant) uer = ugrd ; ver = vgrd: no copy, two more names for the inputs.
CopyGridsAlias ==
    /\ pc = "copy"
    /\ UNCHANGED <<nbvars, barbvars>>
    /\ uer' = ugrd
    /\ ver' = vgrd
    /\ pc' = "assign_u"
    /\ UNCHANGED <<heap, args, env, data_crs, x, y, xx, yy, ut, vt, exc,
                   result, first>>

\* (mutant) ver = ugrd.copy(): both copies are made from ugrd.
CopyGridsBothFromU ==
    /\ pc = "copy"
    /\ UNCHANGED <<nbvars, barbvars>>
    /\ uer' = "uer"
    /\ ver' = "ver"
    /\ heap' = heap @@ ("uer" :> heap[ugrd]) @@ ("ver" :> heap[ugrd])
    /\ pc' = "assign_u"
    /\ UNCHANGED <<args, env, data_crs, x, y, xx, yy, ut, vt, exc, result,
                   first>>

\* uer = ugrd.copy() ; ver = vgrd.copy()     (deep copies: new objects)
CopyGrids ==
    /\ pc = "copy"
    /\ UNCHANGED <<nbvars, barbvars>>
    /\ uer' = "uer"
    /\ ver' = "ver"
    /\ heap' = heap @@ ("uer" :> heap[ugrd]) @@ ("ver" :> heap[vgrd])
    /\ pc' = "assign_u"
    /\ UNCHANGED <<args, env, data_crs, x, y, xx, yy, ut, vt, exc, result,
                   first>>

\* obj.values = new: xarray refuses data of another shape.
SetValues(ref, new, at, next) ==
    IF Shape(new) = Shape(heap[ref].values)
    THEN /\ heap' = [heap EXCEPT ![ref].values = new]
         /\ pc' = next
         /\ exc' = exc
    ELSE /\ Raise("ValueError", at)
         /\ heap' = heap

\* (mutant) uer.values = vt
AssignUFromVt ==
    /\ pc = "assign_u"
    /\ UNCHANGED <<nbvars, barbvars>>
    /\ SetValues(uer, vt, "assign_u", "assign_v")
    /\ UNCHANGED <<args, env, data_crs, x, y, xx, yy, ut, vt, uer, ver,
                   result, first>>

\* uer.values = ut
AssignU ==
    /\ pc = "assign_u"
    /\ UNCHANGED <<nbvars, barbvars>>
    /\ SetValues(uer, ut, "assign_u", "assign_v")
    /\ UNCHANGED <<args, env, data_crs, x, y, xx, yy, ut, vt, uer, ver,
                   result, first>>

\* ver.values = vt
AssignV ==
    /\ pc = "assign_v"
    /\ UNCHANGED <<nbvars, barbvars>>
    /\ SetValues(ver, vt, "assign_v", "return")
    /\ UNCHANGED <<args, env, data_crs, x, y, xx, yy, ut, vt, uer, ver,
                   result, first>>

\* return uer, ver
Return ==
    /\ pc = "return"
    /\ UNCHANGED <<nbvars, barbvars>>
    /\ result' = <<uer, ver>>
    /\ pc' = "returned"
    /\ UNCHANGED <<heap, args, env, data_crs, x, y, xx, yy, ut, vt, uer, ver,
                   exc, first>>

\* ----------------------------------------------------------- the callers
\* The grids a caller may pass.  GridPair builds two co-located grids from
\* one wind field w (a vector per node); the other operators are the ways in
\* which a second grid can differ from it.
GridPair(sh, w, crs, named) ==
    [u |-> DataArray(Array(sh, [i \in 1..sh[1], j \in 1..sh[2] |->
                                   w[<<i, j>>][1]]),
                     Axis(0, sh[2]), Axis(0, sh[1]), named, crs),
     v |-> DataArray(Array(sh, [i \in 1..sh[1], j \in 1..sh[2] |->
                                   w[<<i, j>>][2]]),
                     Axis(0, sh[2]), Axis(0, sh[1]), named, crs)]

Shifted(g) ==
    [g EXCEPT !.x = [k \in DOMAIN g.x |-> g.x[k] + 1],
              !.y = [k \in DOMAIN g.y |-> g.y[k] + 1]]

WithCrs(g, c) == [g EXCEPT !.crs = c]

Renamed(g) == [g EXCEPT !.hasXY = ~g.hasXY]

Transposed(g) ==
    DataArray(Array(<<Len(g.x), Len(g.y)>>,
                    [i \in 1..Len(g.x), j \in 1..Len(g.y) |->
                        g.values[j][i]]),
              Axis(0, Len(g.y)), Axis(0, Len(g.x)), g.hasXY, g.crs)

FirstRow(g) ==
    DataArray(<<g.values[1]>>, g.x, <<g.y[1]>>, g.hasXY, g.crs)

DropColumn(g) ==
    DataArray([i \in DOMAIN g.values |->
                  SubSeq(g.values[i], 1, Len(g.x) - 1)],
              SubSeq(g.x, 1, Len(g.x) - 1), g.y, g.hasXY, g.crs)

SetNode(g, p, val) == [g EXCEPT !.values[p[1]][p[2]] = val]

GridVariants(g) ==
    {g, Shifted(g), Renamed(g), Transposed(g), FirstRow(g)}
        \cup {WithCrs(g, c) : c \in CrsTags}
        \cup (IF Len(g.x) > 1 THEN {DropColumn(g)} ELSE {})

\* The argument pairs of a second call that differ from <<u, v>> in one
\* respect: nothing, the wind at one node, vgrd, or ugrd's metadata.
Variations(u, v) ==
    {<<u, v>>}
        \cup {<<SetNode(u, p, w[1]),
                IF Shape(v.values) = Shape(u.values)
                THEN SetNode(v, p, w[2]) ELSE v>> :
              p \in Nodes(Shape(u.values)), w \in Vecs}
        \cup {<<u, v2>> : v2 \in GridVariants(v)}
        \cup {<<u2, v>> : u2 \in {Shifted(u)} \cup {WithCrs(u, c) : c \in CrsTags}}

\* The script's globals that share a name or a meaning with the function's
\* locals: none are bound when the notebook makes its call (line 168); the
\* map cell binds datacrs, xx and yy later (lines 211, 258).
NoGlobals == [datacrs |-> Unbound, xx |-> NoArray, yy |-> NoArray]
MapGlobals == [datacrs |-> "PlateCarree", xx |-> <<<<7>>>>, yy |-> <<<<9>>>>]

\* What a finished call leaves behind.
Outputs == IF result = <<>> THEN <<>> ELSE <<heap[result[1]], heap[result[2]]>>

Summary ==
    [args |-> args, env |-> env, exc |-> exc, xx |-> xx, yy |-> yy,
     ut |-> ut, vt |-> vt, out |-> Outputs,
     after |-> [u |-> heap[ugrd], v |-> heap[vgrd]]]

Finished == pc \in {"returned", "raised"}

\* earth_relative_wind_components(u, v) is entered: the parameters are bound
\* to the caller's objects and every local is unbound.
FnInit ==
    \E sh \in Shapes, crs \in CrsTags, named \in BOOLEAN :
      \E w \in [Nodes(sh) -> Vecs] :
        \E v \in GridVariants(GridPair(sh, w, crs, named).v) :
          /\ args = [u |-> GridPair(sh, w, crs, named).u, v |-> v]
          /\ heap = (ugrd :> args.u) @@ (vgrd :> args.v)
          /\ env = NoGlobals
          /\ pc = "check"
          /\ data_crs = Unbound
          /\ x = NoArray /\ y = NoArray
          /\ xx = NoArray /\ yy = NoArray
          /\ ut = NoArray /\ vt = NoArray
          /\ uer = Unbound /\ ver = Unbound
          /\ exc = NoExc
          /\ result = <<>>
          /\ first = <<>>

\* The function is called a second time, after the first call has ended.
SecondCall ==
    /\ Finished
    /\ UNCHANGED <<nbvars, barbvars>>
    /\ first = <<>>
    /\ first' = <<Summary>>
    /\ \E a \in Variations(args.u, args.v) :
          /\ args' = [u |-> a[1], v |-> a[2]]
          /\ heap' = (ugrd :> a[1]) @@ (vgrd :> a[2])
    /\ env' = MapGlobals
    /\ pc' = "check"
    /\ data_crs' = Unbound
    /\ x' = NoArray /\ y' = NoArray
    /\ xx' = NoArray /\ yy' = NoArray
    /\ ut' = NoArray /\ vt' = NoArray
    /\ uer' = Unbound /\ ver' = Unbound
    /\ exc' = NoExc
    /\ result' = <<>>

Next ==
    \/ CheckCrs
    \/ ReadCrs
    \/ ReadXY
    \/ MakeMeshgrid
    \/ TransformVectors
    \/ CopyGrids
    \/ AssignU
    \/ AssignV
    \/ Return
    \/ SecondCall

\* ============================================================ notebooks
Notebooks == {"vort", "glm", "dt"}

\* The statements of the 500-hPa vorticity-advection notebook, top to
\* bottom: the lines each spans, the names it reads and the names it binds.
\* phase is the part of the notebook the statement stands in, after the
\* notebook's own headings; kind is what the statement does: "remote" asks a
\* data server, "numeric" computes a derived field (metpy.calc, isosurface
\* interpolation, the wind transform), "plot" calls the plotting library.
VortScript == <<
    [lines |-> <<35, 45>>, phase |-> "setup", kind |-> "import",
     reads |-> {},
     writes |-> {"NetCDF4DataStore", "TDSCatalog", "ccrs", "cfeature", "datetime", "mpcalc", "np", "plt", "units", "xr"}],
    [lines |-> <<71, 111>>, phase |-> "setup", kind |-> "def",
     reads |-> {},
     writes |-> {"earth_relative_wind_components"}],
    [lines |-> <<130, 130>>, phase |-> "acquire", kind |-> "local",
     reads |-> {"datetime"},
     writes |-> {"dt"}],
    [lines |-> <<134, 134>>, phase |-> "acquire", kind |-> "local",
     reads |-> {},
     writes |-> {"base_url"}],
    [lines |-> <<135, 135>>, phase |-> "acquire", kind |-> "remote",
     reads |-> {"TDSCatalog", "base_url", "dt"},
     writes |-> {"cat"}],
    [lines |-> <<136, 136>>, phase |-> "acquire", kind |-> "remote",
     reads |-> {"cat", "dt"},
     writes |-> {"ncss"}],
    [lines |-> <<139, 139>>, phase |-> "acquire", kind |-> "local",
     reads |-> {"ncss"},
     writes |-> {"query"}],
    [lines |-> <<141, 141>>, phase |-> "acquire", kind |-> "local",
     reads |-> {"dt", "query"},
     writes |-> {}],
    [lines |-> <<142, 142>>, phase |-> "acquire", kind |-> "local",
     reads |-> {"query"},
     writes |-> {}],
    [lines |-> <<143, 145>>, phase |-> "acquire", kind |-> "local",
     reads |-> {"query"},
     writes |-> {}],
    [lines |-> <<149, 149>>, phase |-> "acquire", kind |-> "remote",
     reads |-> {"ncss", "query"},
     writes |-> {"data"}],
    [lines |-> <<150, 150>>, phase |-> "acquire", kind |-> "local",
     reads |-> {"NetCDF4DataStore", "data", "xr"},
     writes |-> {"ds_data"}],
    [lines |-> <<151, 151>>, phase |-> "acquire", kind |-> "local",
     reads |-> {"ds_data"},
     writes |-> {"ds"}],
    [lines |-> <<153, 153>>, phase |-> "acquire", kind |-> "local",
     reads |-> {"ds"},
     writes |-> {"times"}],
    [lines |-> <<154, 154>>, phase |-> "acquire", kind |-> "local",
     reads |-> {"times"},
     writes |-> {"vtime"}],
    [lines |-> <<156, 156>>, phase |-> "acquire", kind |-> "local",
     reads |-> {"units"},
     writes |-> {"lev_500"}],
    [lines |-> <<158, 159>>, phase |-> "acquire", kind |-> "local",
     reads |-> {"ds", "lev_500"},
     writes |-> {"hght_500"}],
    [lines |-> <<160, 160>>, phase |-> "acquire", kind |-> "numeric",
     reads |-> {"hght_500", "mpcalc"},
     writes |-> {"hght_500"}],
    [lines |-> <<162, 163>>, phase |-> "acquire", kind |-> "local",
     reads |-> {"ds", "lev_500"},
     writes |-> {"uwnd_500"}],
    [lines |-> <<164, 165>>, phase |-> "acquire", kind |-> "local",
     reads |-> {"ds", "lev_500"},
     writes |-> {"vwnd_500"}],
    [lines |-> <<168, 168>>, phase |-> "acquire", kind |-> "numeric",
     reads |-> {"earth_relative_wind_components", "uwnd_500", "vwnd_500"},
     writes |-> {"uwnd_500er", "vwnd_500er"}],
    [lines |-> <<187, 187>>, phase |-> "compute", kind |-> "numeric",
     reads |-> {"mpcalc", "uwnd_500er", "vwnd_500er"},
     writes |-> {"avor"}],
    [lines |-> <<189, 189>>, phase |-> "compute", kind |-> "numeric",
     reads |-> {"avor", "mpcalc"},
     writes |-> {"avor"}],
    [lines |-> <<191, 191>>, phase |-> "compute", kind |-> "numeric",
     reads |-> {"avor", "mpcalc", "uwnd_500er", "vwnd_500er"},
     writes |-> {"vort_adv"}],
    [lines |-> <<211, 211>>, phase |-> "render", kind |-> "local",
     reads |-> {"ds"},
     writes |-> {"datacrs"}],
    [lines |-> <<212, 213>>, phase |-> "render", kind |-> "local",
     reads |-> {"ccrs"},
     writes |-> {"plotcrs"}],
    [lines |-> <<215, 215>>, phase |-> "render", kind |-> "plot",
     reads |-> {"plt"},
     writes |-> {"fig"}],
    [lines |-> <<216, 216>>, phase |-> "render", kind |-> "plot",
     reads |-> {"plotcrs", "plt"},
     writes |-> {"ax"}],
    [lines |-> <<219, 220>>, phase |-> "render", kind |-> "plot",
     reads |-> {"plt"},
     writes |-> {}],
    [lines |-> <<221, 221>>, phase |-> "render", kind |-> "plot",
     reads |-> {"plt", "vtime"},
     writes |-> {}],
    [lines |-> <<224, 224>>, phase |-> "render", kind |-> "plot",
     reads |-> {"ax", "ccrs"},
     writes |-> {}],
    [lines |-> <<225, 225>>, phase |-> "render", kind |-> "plot",
     reads |-> {"ax"},
     writes |-> {}],
    [lines |-> <<226, 226>>, phase |-> "render", kind |-> "plot",
     reads |-> {"ax", "cfeature"},
     writes |-> {}],
    [lines |-> <<229, 229>>, phase |-> "render", kind |-> "local",
     reads |-> {"np"},
     writes |-> {"clev500"}],
    [lines |-> <<230, 233>>, phase |-> "render", kind |-> "plot",
     reads |-> {"ax", "ccrs", "clev500", "hght_500"},
     writes |-> {"cs"}],
    [lines |-> <<234, 235>>, phase |-> "render", kind |-> "plot",
     reads |-> {"cs", "plt"},
     writes |-> {}],
    [lines |-> <<238, 238>>, phase |-> "render", kind |-> "local",
     reads |-> {"np"},
     writes |-> {"clevvort500"}],
    [lines |-> <<239, 242>>, phase |-> "render", kind |-> "plot",
     reads |-> {"avor", "ax", "ccrs", "clevvort500"},
     writes |-> {"cs2"}],
    [lines |-> <<243, 244>>, phase |-> "render", kind |-> "plot",
     reads |-> {"cs2", "plt"},
     writes |-> {}],
    [lines |-> <<247, 247>>, phase |-> "render", kind |-> "local",
     reads |-> {"np"},
     writes |-> {"clev_avoradv"}],
    [lines |-> <<248, 250>>, phase |-> "render", kind |-> "plot",
     reads |-> {"ax", "ccrs", "clev_avoradv", "vort_adv"},
     writes |-> {"cf"}],
    [lines |-> <<251, 252>>, phase |-> "render", kind |-> "plot",
     reads |-> {"cf", "clev_avoradv", "plt"},
     writes |-> {"cb"}],
    [lines |-> <<253, 253>>, phase |-> "render", kind |-> "plot",
     reads |-> {"cb"},
     writes |-> {}],
    [lines |-> <<257, 257>>, phase |-> "render", kind |-> "local",
     reads |-> {},
     writes |-> {"wind_slice"}],
    [lines |-> <<258, 259>>, phase |-> "render", kind |-> "local",
     reads |-> {"np", "uwnd_500", "wind_slice"},
     writes |-> {"xx", "yy"}],
    [lines |-> <<260, 261>>, phase |-> "render", kind |-> "plot",
     reads |-> {"ax", "datacrs", "uwnd_500", "vwnd_500", "wind_slice", "xx", "yy"},
     writes |-> {}]
>>

\* The statements of the GLM lightning notebook, top to bottom: the lines each
\* spans, the names it reads and the names it binds.
GlmScript == <<
    [lines |-> <<35, 41>>, phase |-> "setup", kind |-> "import",
     reads |-> {},
     writes |-> {"DataAccessLayer", "LATITUDE_FORMATTER", "LONGITUDE_FORMATTER", "ccrs", "cfeat", "datetime", "np", "plt"}],
    [lines |-> <<46, 46>>, phase |-> "acquire", kind |-> "local",
     reads |-> {},
     writes |-> {"edexServer"}],
    [lines |-> <<47, 47>>, phase |-> "acquire", kind |-> "local",
     reads |-> {},
     writes |-> {"datatype"}],
    [lines |-> <<48, 48>>, phase |-> "acquire", kind |-> "local",
     reads |-> {"DataAccessLayer", "edexServer"},
     writes |-> {}],
    [lines |-> <<49, 49>>, phase |-> "acquire", kind |-> "local",
     reads |-> {"DataAccessLayer", "datatype"},
     writes |-> {"request"}],
    [lines |-> <<52, 52>>, phase |-> "acquire", kind |-> "remote",
     reads |-> {"DataAccessLayer", "request"},
     writes |-> {"sources"}],
    [lines |-> <<53, 53>>, phase |-> "acquire", kind |-> "local",
     reads |-> {},
     writes |-> {}],
    [lines |-> <<54, 54>>, phase |-> "acquire", kind |-> "local",
     reads |-> {"sources"},
     writes |-> {}],
    [lines |-> <<55, 55>>, phase |-> "acquire", kind |-> "local",
     reads |-> {},
     writes |-> {}],
    [lines |-> <<56, 56>>, phase |-> "acquire", kind |-> "remote",
     reads |-> {"DataAccessLayer", "request"},
     writes |-> {"availableParms"}],
    [lines |-> <<57, 57>>, phase |-> "acquire", kind |-> "local",
     reads |-> {"availableParms"},
     writes |-> {}],
    [lines |-> <<58, 58>>, phase |-> "acquire", kind |-> "local",
     reads |-> {},
     writes |-> {}],
    [lines |-> <<59, 59>>, phase |-> "acquire", kind |-> "local",
     reads |-> {"availableParms"},
     writes |-> {}],
    [lines |-> <<68, 68>>, phase |-> "acquire", kind |-> "local",
     reads |-> {"request"},
     writes |-> {}],
    [lines |-> <<69, 69>>, phase |-> "acquire", kind |-> "local",
     reads |-> {"request"},
     writes |-> {}],
    [lines |-> <<70, 70>>, phase |-> "acquire", kind |-> "remote",
     reads |-> {"DataAccessLayer", "request"},
     writes |-> {"times"}],
    [lines |-> <<71, 71>>, phase |-> "acquire", kind |-> "remote",
     reads |-> {"DataAccessLayer", "request", "times"},
     writes |-> {"response"}],
    [lines |-> <<72, 72>>, phase |-> "acquire", kind |-> "local",
     reads |-> {},
     writes |-> {"glm_points"}],
    [lines |-> <<73, 74>>, phase |-> "acquire", kind |-> "local",
     reads |-> {"glm_points", "response"},
     writes |-> {"data"}],
    [lines |-> <<75, 75>>, phase |-> "acquire", kind |-> "local",
     reads |-> {"response"},
     writes |-> {"ob"}],
    [lines |-> <<87, 87>>, phase |-> "render", kind |-> "plot",
     reads |-> {"ccrs", "plt"},
     writes |-> {"ax", "fig"}],
    [lines |-> <<88, 88>>, phase |-> "render", kind |-> "plot",
     reads |-> {"ax"},
     writes |-> {}],
    [lines |-> <<89, 89>>, phase |-> "render", kind |-> "plot",
     reads |-> {"ax"},
     writes |-> {}],
    [lines |-> <<90, 92>>, phase |-> "render", kind |-> "plot",
     reads |-> {"ax", "ccrs", "glm_points"},
     writes |-> {}],
    [lines |-> <<93, 93>>, phase |-> "render", kind |-> "plot",
     reads |-> {"ax", "edexServer", "ob", "response"},
     writes |-> {}]
>>

\* The statements of the dynamic-tropopause notebook, top to bottom: the lines each
\* spans, the names it reads and the names it binds.
DtScript == <<
    [lines |-> <<20, 26>>, phase |-> "setup", kind |-> "import",
     reads |-> {},
     writes |-> {"BarbPlot", "ContourPlot", "FilledContourPlot", "MapPanel", "PanelContainer", "datetime", "interpolate_to_isosurface", "mpcalc", "timedelta", "units", "xr"}],
    [lines |-> <<44, 44>>, phase |-> "acquire", kind |-> "local",
     reads |-> {"datetime", "timedelta"},
     writes |-> {"date"}],
    [lines |-> <<45, 47>>, phase |-> "acquire", kind |-> "remote",
     reads |-> {"date", "xr"},
     writes |-> {"ds"}],
    [lines |-> <<49, 49>>, phase |-> "acquire", kind |-> "local",
     reads |-> {"ds"},
     writes |-> {"ds"}],
    [lines |-> <<51, 51>>, phase |-> "acquire", kind |-> "local",
     reads |-> {"ds"},
     writes |-> {"vtime"}],
    [lines |-> <<68, 68>>, phase |-> "compute", kind |-> "local",
     reads |-> {"ds"},
     writes |-> {"pressure"}],
    [lines |-> <<70, 71>>, phase |-> "compute", kind |-> "numeric",
     reads |-> {"ds", "mpcalc"},
     writes |-> {"uwind"}],
    [lines |-> <<72, 73>>, phase |-> "compute", kind |-> "numeric",
     reads |-> {"ds", "mpcalc"},
     writes |-> {"vwind"}],
    [lines |-> <<75, 76>>, phase |-> "compute", kind |-> "numeric",
     reads |-> {"ds", "mpcalc", "units"},
     writes |-> {"LL_avor"}],
    [lines |-> <<77, 77>>, phase |-> "compute", kind |-> "local",
     reads |-> {"LL_avor"},
     writes |-> {"avg_LL_avor"}],
    [lines |-> <<79, 81>>, phase |-> "compute", kind |-> "numeric",
     reads |-> {"ds", "mpcalc", "pressure"},
     writes |-> {"potemp"}],
    [lines |-> <<82, 82>>, phase |-> "compute", kind |-> "numeric",
     reads |-> {"avg_LL_avor", "ds", "mpcalc"},
     writes |-> {"avg_LL_rvor"}],
    [lines |-> <<84, 84>>, phase |-> "compute", kind |-> "numeric",
     reads |-> {"mpcalc", "potemp", "pressure", "uwind", "vwind"},
     writes |-> {"pvor"}],
    [lines |-> <<86, 87>>, phase |-> "compute", kind |-> "numeric",
     reads |-> {"interpolate_to_isosurface", "potemp", "pvor"},
     writes |-> {"DT_potemp"}],
    [lines |-> <<88, 89>>, phase |-> "compute", kind |-> "numeric",
     reads |-> {"interpolate_to_isosurface", "pvor", "units", "uwind"},
     writes |-> {"DT_uwnd"}],
    [lines |-> <<90, 91>>, phase |-> "compute", kind |-> "numeric",
     reads |-> {"interpolate_to_isosurface", "pvor", "units", "vwind"},
     writes |-> {"DT_vwnd"}],
    [lines |-> <<109, 109>>, phase |-> "compute", kind |-> "local",
     reads |-> {"ds"},
     writes |-> {"gridmapping"}],
    [lines |-> <<110, 111>>, phase |-> "compute", kind |-> "local",
     reads |-> {"DT_potemp", "ds", "gridmapping"},
     writes |-> {"ds"}],
    [lines |-> <<112, 113>>, phase |-> "compute", kind |-> "local",
     reads |-> {"DT_uwnd", "ds", "gridmapping"},
     writes |-> {"ds"}],
    [lines |-> <<114, 115>>, phase |-> "compute", kind |-> "local",
     reads |-> {"DT_vwnd", "ds", "gridmapping"},
     writes |-> {"ds"}],
    [lines |-> <<118, 118>>, phase |-> "compute", kind |-> "local",
     reads |-> {"avg_LL_rvor", "ds"},
     writes |-> {}],
    [lines |-> <<134, 134>>, phase |-> "render", kind |-> "local",
     reads |-> {"ContourPlot"},
     writes |-> {"cntr"}],
    [lines |-> <<135, 135>>, phase |-> "render", kind |-> "local",
     reads |-> {"cntr", "ds"},
     writes |-> {}],
    [lines |-> <<136, 136>>, phase |-> "render", kind |-> "local",
     reads |-> {"cntr"},
     writes |-> {}],
    [lines |-> <<137, 137>>, phase |-> "render", kind |-> "local",
     reads |-> {"cntr"},
     writes |-> {}],
    [lines |-> <<138, 138>>, phase |-> "render", kind |-> "local",
     reads |-> {"cntr"},
     writes |-> {}],
    [lines |-> <<139, 139>>, phase |-> "render", kind |-> "local",
     reads |-> {"cntr"},
     writes |-> {}],
    [lines |-> <<140, 140>>, phase |-> "render", kind |-> "local",
     reads |-> {"cntr"},
     writes |-> {}],
    [lines |-> <<142, 142>>, phase |-> "render", kind |-> "local",
     reads |-> {"FilledContourPlot"},
     writes |-> {"cntr2"}],
    [lines |-> <<143, 143>>, phase |-> "render", kind |-> "local",
     reads |-> {"cntr2", "ds"},
     writes |-> {}],
    [lines |-> <<144, 144>>, phase |-> "render", kind |-> "local",
     reads |-> {"cntr2"},
     writes |-> {}],
    [lines |-> <<145, 145>>, phase |-> "render", kind |-> "local",
     reads |-> {"cntr2"},
     writes |-> {}],
    [lines |-> <<146, 146>>, phase |-> "render", kind |-> "local",
     reads |-> {"cntr2"},
     writes |-> {}],
    [lines |-> <<147, 147>>, phase |-> "render", kind |-> "local",
     reads |-> {"cntr2"},
     writes |-> {}],
    [lines |-> <<148, 148>>, phase |-> "render", kind |-> "local",
     reads |-> {"cntr2"},
     writes |-> {}],
    [lines |-> <<150, 150>>, phase |-> "render", kind |-> "local",
     reads |-> {"BarbPlot"},
     writes |-> {"barbs"}],
    [lines |-> <<151, 151>>, phase |-> "render", kind |-> "local",
     reads |-> {"barbs", "ds"},
     writes |-> {}],
    [lines |-> <<152, 152>>, phase |-> "render", kind |-> "local",
     reads |-> {"barbs"},
     writes |-> {}],
    [lines |-> <<153, 153>>, phase |-> "render", kind |-> "local",
     reads |-> {"barbs"},
     writes |-> {}],
    [lines |-> <<155, 155>>, phase |-> "render", kind |-> "local",
     reads |-> {"MapPanel"},
     writes |-> {"panel"}],
    [lines |-> <<156, 156>>, phase |-> "render", kind |-> "local",
     reads |-> {"panel"},
     writes |-> {}],
    [lines |-> <<157, 157>>, phase |-> "render", kind |-> "local",
     reads |-> {"panel"},
     writes |-> {}],
    [lines |-> <<158, 158>>, phase |-> "render", kind |-> "local",
     reads |-> {"panel"},
     writes |-> {}],
    [lines |-> <<159, 161>>, phase |-> "render", kind |-> "local",
     reads |-> {"panel", "vtime"},
     writes |-> {}],
    [lines |-> <<162, 162>>, phase |-> "render", kind |-> "local",
     reads |-> {"barbs", "cntr", "cntr2", "panel"},
     writes |-> {}],
    [lines |-> <<164, 164>>, phase |-> "render", kind |-> "local",
     reads |-> {"PanelContainer"},
     writes |-> {"pc"}],
    [lines |-> <<165, 165>>, phase |-> "render", kind |-> "plot",
     reads |-> {"pc"},
     writes |-> {}],
    [lines |-> <<166, 166>>, phase |-> "render", kind |-> "plot",
     reads |-> {"panel", "pc"},
     writes |-> {}],
    [lines |-> <<168, 168>>, phase |-> "render", kind |-> "plot",
     reads |-> {"pc"},
     writes |-> {}]
>>

Script(n) ==
    CASE n = "vort" -> VortScript
      [] n = "glm" -> GlmScript
      [] n = "dt" -> DtScript

\* (mutant) every notebook runs in the vorticity notebook's kernel.
KernelShared(n) == "vort"

\* The kernel a notebook runs in: each notebook names its own (kernelspec).
KernelOf(n) == n

\* (mutant) the vorticity is computed from the grid-relative components.
ReadsGridRelative(n, k) ==
    IF n = "vort" /\ Script(n)[k].lines[1] = 187
    THEN {"mpcalc", "uwnd_500", "vwnd_500"}
    ELSE Script(n)[k].reads

\* The names statement k of notebook n reads and binds.
Reads(n, k) == Script(n)[k].reads

Writes(n, k) == Script(n)[k].writes

Binding(name, n, k) == [name |-> name, nb |-> n, step |-> k]

Bound(n) == {b.name : b \in namespace[KernelOf(n)]}

NbInit ==
    /\ cursor = [n \in Notebooks |-> 1]
    /\ status = [n \in Notebooks |-> "running"]
    /\ error = [n \in Notebooks |-> "none"]
    /\ trace = [n \in Notebooks |-> <<>>]
    /\ used = [n \in Notebooks |-> <<>>]
    /\ before = [n \in Notebooks |-> <<>>]
    /\ raised = [n \in Notebooks |-> {}]
    /\ namespace = [k \in {KernelOf(n) : n \in Notebooks} |-> {}]

Runnable(n) == status[n] = "running" /\ cursor[n] <= Len(Script(n))

\* The bookkeeping of running statement cursor[n], whatever its outcome.
Logged(n) ==
    /\ trace' = [trace EXCEPT ![n] = Append(@, cursor[n])]
    /\ used' = [used EXCEPT ![n] =
                   Append(@, {b \in namespace[KernelOf(n)] :
                                 b.name \in Reads(n, cursor[n])})]
    /\ before' = [before EXCEPT ![n] =
                     Append(@, IF trace[n] = <<>> THEN {}
                               ELSE @[Len(@)] \cup
                                    {Script(n)[trace[n][Len(trace[n])]].kind})]

\* (mutant) the statement sits in a retry loop: the exception is caught and
\* the statement is up again.
CaughtAndRetried(n, e) ==
    /\ raised' = [raised EXCEPT ![n] = @ \cup {cursor[n]}]
    /\ UNCHANGED <<status, error, cursor, namespace>>

\* An exception leaves the statement; nothing in the notebook catches it, so
\* the run ends there.
Propagate(n, e) ==
    /\ status' = [status EXCEPT ![n] = "failed"]
    /\ error' = [error EXCEPT ![n] = e]
    /\ raised' = [raised EXCEPT ![n] = @ \cup {cursor[n]}]
    /\ UNCHANGED <<cursor, namespace>>

\* Statement cursor[n] runs to its end: the names it assigns are bound and the
\* next statement is up.  Reading an unbound name is a NameError.
Completes(n) ==
    /\ Runnable(n)
    /\ Logged(n)
    /\ IF Reads(n, cursor[n]) \subseteq Bound(n)
       THEN /\ namespace' = [namespace EXCEPT ![KernelOf(n)] =
                   {b \in @ : b.name \notin Writes(n, cursor[n])}
                       \cup {Binding(w, n, cursor[n]) : w \in Writes(n, cursor[n])}]
            /\ cursor' = [cursor EXCEPT ![n] = @ + 1]
            /\ UNCHANGED <<status, error, raised>>
       ELSE Propagate(n, "NameError")
    /\ UNCHANGED <<fnvars, barbvars>>

\* Statement cursor[n] fails in the library it calls (the server is away, the
\* data are not as expected, ...).
Raises(n) ==
    /\ Runnable(n)
    /\ Logged(n)
    /\ Propagate(n, "LibraryError")
    /\ UNCHANGED <<fnvars, barbvars>>

\* The last statement has run.
Ends(n) ==
    /\ status[n] = "running"
    /\ cursor[n] > Len(Script(n))
    /\ status' = [status EXCEPT ![n] = "done"]
    /\ UNCHANGED <<cursor, error, trace, used, before, raised, namespace>>
    /\ UNCHANGED <<fnvars, barbvars>>

NbNext == \E n \in Notebooks : Completes(n) \/ Raises(n) \/ Ends(n)

\* ------------------------------------------------- the wind-barb step
\* The step of the slices: every 20th row and every 20th column.
Stride == 20

\* slice(start, stop, step) with start and stop None: from the first element
\* to the last.
Slice(step) == [start |-> "None", stop |-> "None", step |-> step]

\* The number of elements seq[sl] selects: indices 0, step, 2 * step, ...
SliceLen(n, sl) == (n + sl.step - 1) \div sl.step

\* seq[sl] for a 1-d array (0-based index k of the result is index
\* k * step of seq; sequences here count from 1).
Take(seq, sl) ==
    [k \in 1..SliceLen(Len(seq), sl) |-> seq[(k - 1) * sl.step + 1]]

\* a[ws] for a 2-d array and a pair of slices: ws[1] picks the rows, ws[2]
\* the columns.
Take2(a, ws) ==
    [r \in 1..SliceLen(Len(a), ws[1]) |->
        Take(a[(r - 1) * ws[1].step + 1], ws[2])]

\* uwnd_500 and vwnd_500 as the data cell leaves them: two grids of one
\* shape on the same axes, with coordinates named x and y and a CRS (the
\* call at line 168 has returned).  Every node holds a value of its own and
\* the two axes share no value, so that an array entry tells where it came
\* from.
WindGrids(m, n) ==
    [u |-> DataArray(Array(<<m, n>>,
                           [i \in 1..m, j \in 1..n |-> <<"u", i, j>>]),
                     Axis(0, n), Axis(1000, m), TRUE, "LambertConformal"),
     v |-> DataArray(Array(<<m, n>>,
                           [i \in 1..m, j \in 1..n |-> <<"v", i, j>>]),
                     Axis(0, n), Axis(1000, m), TRUE, "LambertConformal")]

BarbStart(m, n) ==
    /\ wnd_500 = WindGrids(m, n)
    /\ bpc = "slice"
    /\ wind_slice = <<>>
    /\ barb_xx = NoArray
    /\ barb_yy = NoArray
    /\ barbs = <<>>

BarbInit == \E m \in 1..MaxSide, n \in 1..MaxSide : BarbStart(m, n)

\* wind_slice = (slice(None, None, 20), slice(None, None, 20))
MakeWindSlice ==
    /\ bpc = "slice"
    /\ wind_slice' = <<Slice(Stride), Slice(Stride)>>
    /\ bpc' = "meshgrid"
    /\ UNCHANGED <<wnd_500, barb_xx, barb_yy, barbs>>
    /\ UNCHANGED <<fnvars, nbvars>>

\* (mutant) np.meshgrid(y[...], x[...]): the axes are passed in the other
\* order.
SubsampleMeshgridSwapped ==
    /\ bpc = "meshgrid"
    /\ barb_xx' = Meshgrid(Take(wnd_500.u.y, wind_slice[1]),
                           Take(wnd_500.u.x, wind_slice[1])).xx
    /\ barb_yy' = Meshgrid(Take(wnd_500.u.y, wind_slice[1]),
                           Take(wnd_500.u.x, wind_slice[1])).yy
    /\ bpc' = "barbs"
    /\ UNCHANGED <<wnd_500, wind_slice, barbs>>
    /\ UNCHANGED <<fnvars, nbvars>>

\* xx, yy = np.meshgrid(uwnd_500.x.values[wind_slice[0]],
\*                      uwnd_500.y.values[wind_slice[0]])
\* Both axes are cut with the first slice of the pair.
SubsampleMeshgrid ==
    /\ bpc = "meshgrid"
    /\ barb_xx' = Meshgrid(Take(wnd_500.u.x, wind_slice[1]),
                           Take(wnd_500.u.y, wind_slice[1])).xx
    /\ barb_yy' = Meshgrid(Take(wnd_500.u.x, wind_slice[1]),
                           Take(wnd_500.u.y, wind_slice[1])).yy
    /\ bpc' = "barbs"
    /\ UNCHANGED <<wnd_500, wind_slice, barbs>>
    /\ UNCHANGED <<fnvars, nbvars>>

\* ax.barbs(xx, yy, uwnd_500.values[wind_slice], vwnd_500.values[wind_slice],
\*          length=6, pivot='middle', transform=datacrs)
\* matplotlib refuses position and component arrays of different shapes.
DrawBarbs ==
    /\ bpc = "barbs"
    /\ IF /\ Shape(barb_yy) = Shape(barb_xx)
          /\ Shape(Take2(wnd_500.u.values, wind_slice)) = Shape(barb_xx)
          /\ Shape(Take2(wnd_500.v.values, wind_slice)) = Shape(barb_xx)
       THEN /\ barbs' = <<[xx |-> barb_xx, yy |-> barb_yy,
                           u |-> Take2(wnd_500.u.values, wind_slice),
                           v |-> Take2(wnd_500.v.values, wind_slice),
                           transform |-> wnd_500.u.crs]>>
            /\ bpc' = "drawn"
       ELSE /\ barbs' = barbs
            /\ bpc' = "raised"
    /\ UNCHANGED <<wnd_500, wind_slice, barb_xx, barb_yy>>
    /\ UNCHANGED <<fnvars, nbvars>>

BarbNext ==
    \/ MakeWindSlice
    \/ SubsampleMeshgrid
    \/ DrawBarbs

\* The barb step when it is not looked at: the smallest grid, not started.
BarbIdle == BarbStart(1, 1)

\* ------------------------------------------------------- specifications
\* The function called twice; no notebook runs.
Init == FnInit /\ NbInit /\ BarbIdle

Spec == Init /\ [][Next]_vars

\* The three notebooks run side by side, each in its kernel; the function
\* is looked at as one statement of the vorticity notebook.
FnIdle ==
    /\ FnInit
    /\ args = GridPair(<<1, 1>>, [p \in Nodes(<<1, 1>>) |-> <<1, 0>>],
                       "LambertConformal", TRUE)

NbSpecInit == FnIdle /\ NbInit /\ BarbIdle

NbSpec == NbSpecInit /\ [][NbNext]_vars

\* The wind-barb step alone, on grids of every shape up to MaxSide a side.
BarbSpecInit == FnIdle /\ NbInit /\ BarbInit

BarbSpec == BarbSpecInit /\ [][BarbNext]_vars


\* ================================================================ claims
Returned == pc = "returned"

Unstarted ==
    /\ data_crs = Unbound
    /\ x = NoArray /\ y = NoArray
    /\ xx = NoArray /\ yy = NoArray
    /\ ut = NoArray /\ vt = NoArray
    /\ uer = Unbound /\ ver = Unbound
    /\ DOMAIN heap = {ugrd, vgrd}

\* C1: a call whose ugrd carries no 'metpy_crs' coordinate ends in a
\* ValueError raised by the first statement: no local is bound, no meshgrid,
\* transform or copy exists, and nothing is returned.
C1_NoCrsFailsFast ==
    (args.u.crs = "none" /\ pc # "check") =>
        /\ pc = "raised"
        /\ exc = [type |-> "ValueError", at |-> "check"]
        /\ Unstarted
        /\ result = <<>>

C1_Witness ==
    /\ args.u.crs = "none"
    /\ args.v.crs # "none"
    /\ pc = "raised"

\* C2: when a call returns, the objects passed as ugrd and vgrd are as they
\* were when the call was made, and the transformed values sit in two other
\* objects, the copies.
C2_InputsNotMutated ==
    Returned =>
        /\ heap[ugrd] = args.u
        /\ heap[vgrd] = args.v
        /\ {result[1], result[2]} \cap {ugrd, vgrd} = {}
        /\ result[1] # result[2]
        /\ heap[result[1]].values = ut
        /\ heap[result[2]].values = vt

C2_Witness ==
    /\ Returned
    /\ ut # args.u.values
    /\ vt # args.v.values

\* C3: when a call returns, uer has the shape and the coordinates of ugrd,
\* ver those of vgrd, and the meshgrid arrays and the transformed arrays
\* have the (M, N) shape of the input values.
C3_ShapeAndCoordsKept ==
    Returned =>
        /\ Shape(Outputs[1].values) = Shape(args.u.values)
        /\ Shape(Outputs[2].values) = Shape(args.v.values)
        /\ Coords(Outputs[1]) = Coords(args.u)
        /\ Coords(Outputs[2]) = Coords(args.v)
        /\ Shape(xx) = Shape(args.u.values)
        /\ Shape(yy) = Shape(args.u.values)
        /\ Shape(ut) = Shape(args.u.values)
        /\ Shape(vt) = Shape(args.u.values)

C3_Witness ==
    /\ Returned
    /\ Shape(args.u.values)[1] # Shape(args.u.values)[2]
    /\ Coords(args.v) # Coords(args.u)

\* C4: when the grid's CRS is plate carree, the CRS the function transforms
\* to, the returned components equal the input components at every node.
C4_IdentityOnPlateCarree ==
    (Returned /\ args.u.crs = "PlateCarree") =>
        /\ Outputs[1].values = args.u.values
        /\ Outputs[2].values = args.v.values

C4_Witness ==
    /\ Returned
    /\ args.u.crs = "PlateCarree"
    /\ args.u.values # args.v.values
    /\ Shape(args.u.values) = <<2, 2>>

\* C5: two calls with the same arguments end the same way, whatever the
\* script's globals are: the same exception from the same statement, or
\* equal returned grids.
C5_Deterministic ==
    (first # <<>> /\ Finished /\ first[1].args = args) =>
        /\ first[1].exc = exc
        /\ first[1].out = Outputs

C5_Witness ==
    /\ first # <<>>
    /\ Returned
    /\ first[1].args = args
    /\ first[1].env # env
    /\ args.u.crs = "LambertConformal"

\* C6: for two returned calls on grids with the same CRS and shape, a node
\* that holds the same wind and has the same position in both calls gets the
\* same output in both, whatever the other nodes hold.
SameNode(a, b, i, j) ==
    /\ a.u.values[i][j] = b.u.values[i][j]
    /\ a.v.values[i][j] = b.v.values[i][j]
    /\ a.u.x[j] = b.u.x[j]
    /\ a.u.y[i] = b.u.y[i]

C6_Pointwise ==
    (/\ first # <<>>
     /\ Returned
     /\ first[1].out # <<>>
     /\ first[1].args.u.crs = args.u.crs
     /\ Shape(first[1].args.u.values) = Shape(args.u.values)) =>
        \A p \in Nodes(Shape(args.u.values)) :
            SameNode(first[1].args, args, p[1], p[2]) =>
                /\ first[1].out[1].values[p[1]][p[2]]
                       = Outputs[1].values[p[1]][p[2]]
                /\ first[1].out[2].values[p[1]][p[2]]
                       = Outputs[2].values[p[1]][p[2]]

C6_Witness ==
    /\ first # <<>>
    /\ Returned
    /\ first[1].out # <<>>
    /\ args.u.crs = "LambertConformal"
    /\ Coords(first[1].args.u) = Coords(args.u)
    /\ Shape(args.u.values) = <<2, 2>>
    /\ SameNode(first[1].args, args, 2, 1)
    /\ ~SameNode(first[1].args, args, 1, 2)
    /\ first[1].out[1].values # Outputs[1].values

\* C10: the CRS and the positions are ugrd's: the locals hold ugrd's CRS and
\* axes, two calls with the same ugrd pass or fail the metadata check alike
\* and rotate at the same positions whatever vgrd is, with equal output
\* values when vgrd differs in coordinates and CRS only; and ver keeps
\* vgrd's coordinates.
C10_MetadataFromUgrdOnly ==
    /\ data_crs \in {Unbound, args.u.crs}
    /\ x \in {NoArray, args.u.x}
    /\ y \in {NoArray, args.u.y}
    /\ Returned => Coords(Outputs[2]) = Coords(args.v)
    /\ (first # <<>> /\ Finished /\ first[1].args.u = args.u) =>
          /\ (first[1].exc.at = "check") <=> (exc.at = "check")
          /\ first[1].xx = xx
          /\ first[1].yy = yy
          /\ first[1].args.v.values = args.v.values =>
                /\ first[1].exc = exc
                /\ first[1].ut = ut
                /\ first[1].vt = vt

C10_Witness ==
    /\ first # <<>>
    /\ Returned
    /\ first[1].out # <<>>
    /\ first[1].args.u = args.u
    /\ first[1].args.v.values = args.v.values
    /\ args.v.crs # first[1].args.v.crs
    /\ args.v.crs # args.u.crs
    /\ args.u.crs = "LambertConformal"

\* C7: in every notebook a statement that raises is the last one run: the run
\* is failed and stays at that statement, nothing runs after it, and no
\* statement (so no remote request) is run twice.
Last(q) == q[Len(q)]

C7_FailureEndsTheRun ==
    \A n \in Notebooks :
        /\ \A i \in DOMAIN trace[n] :
              trace[n][i] \in raised[n] =>
                  /\ i = Len(trace[n])
                  /\ status[n] = "failed"
                  /\ cursor[n] = trace[n][i]
        /\ status[n] = "failed" =>
              /\ trace[n] # <<>>
              /\ Last(trace[n]) \in raised[n]
              /\ error[n] # "none"
        /\ Cardinality({trace[n][i] : i \in DOMAIN trace[n]}) = Len(trace[n])

C7_Witness ==
    /\ status["vort"] = "failed"
    /\ Script("vort")[cursor["vort"]].lines[1] = 149
    /\ Script("vort")[cursor["vort"]].kind = "remote"
    /\ status["glm"] = "failed"
    /\ Script("glm")[cursor["glm"]].kind = "plot"
    /\ status["dt"] = "failed"
    /\ Script("dt")[cursor["dt"]].kind = "numeric"

\* C8: every notebook runs its statements top to bottom, each at most once,
\* its phases in the order setup, acquire, compute, render, with no remote
\* request after a derived-field computation or a plotting call and no
\* derived-field computation after a plotting call; every name a statement
\* reads was bound by an earlier, completed statement of the same notebook;
\* and a kernel's namespace holds only its own notebook's names.
PhaseRank(ph) ==
    CASE ph = "setup" -> 0
      [] ph = "acquire" -> 1
      [] ph = "compute" -> 2
      [] ph = "render" -> 3

C8_TopToBottomOnce ==
    \A n \in Notebooks :
        /\ \A i \in DOMAIN trace[n] : trace[n][i] = i
        /\ \A i \in DOMAIN trace[n] :
              i > 1 => PhaseRank(Script(n)[trace[n][i - 1]].phase)
                           <= PhaseRank(Script(n)[trace[n][i]].phase)
        /\ \A i \in DOMAIN before[n] :
              LET kind == Script(n)[trace[n][i]].kind
              IN  /\ kind = "remote" =>
                        before[n][i] \cap {"numeric", "plot"} = {}
                  /\ kind = "numeric" => "plot" \notin before[n][i]
        /\ \A i \in DOMAIN used[n] :
              /\ {b.name : b \in used[n][i]} = Reads(n, trace[n][i])
              /\ \A b \in used[n][i] :
                    /\ b.nb = n
                    /\ b.step < i
                    /\ trace[n][b.step] = b.step
                    /\ b.step \notin raised[n]
                    /\ b.name \in Writes(n, b.step)
        /\ \A b \in namespace[KernelOf(n)] : b.nb = n
        /\ error[n] # "NameError"

C8_Witness ==
    /\ \A n \in Notebooks : status[n] = "done"
    /\ \A n \in Notebooks : {"remote", "plot"} \subseteq Last(before[n])
    /\ \A n \in Notebooks : Len(trace[n]) = Len(Script(n))

\* C9: in the vorticity notebook the vorticity (line 187) and its advection
\* (line 191) read the wind components bound by the call of
\* earth_relative_wind_components (line 168), which itself read the
\* grid-relative ones; the barbs (line 260) read the grid-relative
\* components bound at lines 162 and 164, and datacrs.
WindNames == {"uwnd_500", "vwnd_500", "uwnd_500er", "vwnd_500er"}

LineOf(b) == Script(b.nb)[b.step].lines[1]

VortBinding(name, line) ==
    CHOOSE b \in [name : {name}, nb : {"vort"}, step : DOMAIN VortScript] :
        LineOf(b) = line

GridRelative == {VortBinding("uwnd_500", 162), VortBinding("vwnd_500", 164)}

EarthRelative ==
    {VortBinding("uwnd_500er", 168), VortBinding("vwnd_500er", 168)}

C9_EarthRelativeForCalculation ==
    \A i \in DOMAIN trace["vort"] :
        LET line == VortScript[trace["vort"][i]].lines[1]
            winds == {b \in used["vort"][i] : b.name \in WindNames}
        IN  /\ line = 168 => winds = GridRelative
            /\ line \in {187, 191} => winds = EarthRelative
            /\ line = 260 =>
                  /\ winds = GridRelative
                  /\ VortBinding("datacrs", 211) \in used["vort"][i]

C9_Witness ==
    /\ status["vort"] = "done"
    /\ \E i \in DOMAIN trace["vort"] :
          VortScript[trace["vort"][i]].lines[1] = 260

\* C11: when the barbs are drawn for a grid of M rows and N columns, the
\* position arrays xx, yy and the two wind arrays all have the shape
\* (ceil(M / 20), ceil(N / 20)), and their entries (a, b), counted from 0,
\* are the x of column 20 * b, the y of row 20 * a and the wnd_500 of the node
\* in row 20 * a and column 20 * b.
CeilDiv(n, d) == (n + d - 1) \div d

C11_BarbsAtTheirNodes ==
    bpc = "drawn" =>
        LET M == Len(wnd_500.u.y)
            N == Len(wnd_500.u.x)
            drawn == barbs[1]
            shape == <<CeilDiv(M, 20), CeilDiv(N, 20)>>
        IN  /\ Shape(drawn.xx) = shape
            /\ Shape(drawn.yy) = shape
            /\ Shape(drawn.u) = shape
            /\ Shape(drawn.v) = shape
            /\ \A a \in 0..(shape[1] - 1), b \in 0..(shape[2] - 1) :
                  /\ drawn.xx[a + 1][b + 1] = wnd_500.u.x[20 * b + 1]
                  /\ drawn.yy[a + 1][b + 1] = wnd_500.u.y[20 * a + 1]
                  /\ drawn.u[a + 1][b + 1]
                         = wnd_500.u.values[20 * a + 1][20 * b + 1]
                  /\ drawn.v[a + 1][b + 1]
                         = wnd_500.v.values[20 * a + 1][20 * b + 1]

C11_Witness ==
    /\ bpc = "drawn"
    /\ Len(wnd_500.u.y) = 41
    /\ Len(wnd_500.u.x) = 21
    /\ Shape(barbs[1].u) = <<3, 2>>

====
